---- MODULE Spec2Model ----
(***************************************************************************)
(* HipHTML: a cursor (Parser) over a parsed html.Node tree.                *)
(* The tree is the heap of html.Node values built once by html.Parse; the  *)
(* Parser holds doc (the root), node (the current node) and level.         *)
(* Every method of parser.go is an operator on a cursor value              *)
(* [node, level] returning [node, level, err]; every public method is an   *)
(* action that applies the operator to the Parser's fields.                *)
(***************************************************************************)
EXTENDS Integers, Sequences, FiniteSets, TLC

\* Largest number of nodes a document has beyond the Document, html, head
\* and body nodes that html.Parse always builds.
MaxExtra == 2

\* The same, for the specifications that run the methods statement by
\* statement.
MaxExtraFine == 1

\* The nil *html.Node.
Nil == 0

\* atom.Atom values carried by nodes; NoAtom is the zero Atom.
NoAtom == "none"
AtomHtml == "html"
AtomHead == "head"
AtomBody == "body"
AtomMeta == "meta"
AtomDiv == "div"
Atoms == {AtomHtml, AtomHead, AtomBody, AtomMeta, AtomDiv}
\* The atoms without a method of their own (Body, Head, FirstMeta, NextMeta).
OtherAtoms == {AtomHtml, AtomDiv}

\* html.NodeType values that occur in the trees.
DocumentNode == "DocumentNode"
ElementNode == "ElementNode"
TextNode == "TextNode"
CommentNode == "CommentNode"

\* The error values of parser.go; NoErr is a nil error.
NoErr == "nil"
ErrBegOfDoc == "ErrBegOfDoc"
ErrEndOfDoc == "ErrEndOfDoc"
ErrNoSuchRelative == "ErrNoSuchRelative"

VARIABLES tree, doc, node, level, op, arg, err, fromNode, fromLevel, dir, trail, prior,
          other, thr, raced

vars == <<tree, doc, node, level, op, arg, err, fromNode, fromLevel, dir, trail, prior,
          other, thr, raced>>

\* The history of the last call, as the call-level specification keeps it.
hist == <<op, arg, err, fromNode, fromLevel, dir, trail, prior>>

(***************************************************************************)
(* The trees html.Parse can hand to NewParser.  Node 1 is the Document     *)
(* root, node 2 its html element, nodes 3 and 4 the head and body elements *)
(* of html.  Every further node is a comment (a leaf that is no element,   *)
(* which the parser places at any level; the Parser treats text nodes the  *)
(* same way, consulting isElem only), a meta element (a leaf under head,   *)
(* body or a div) or a div element (under body or a div).  The children of *)
(* a node are linked left to right in index order, except that the html    *)
(* element comes last among the children of the root when lead holds (a    *)
(* doctype or comment before <html>) and first otherwise (comments after   *)
(* </html>).                                                               *)
(***************************************************************************)
Skeleton == 4

Leaves == {CommentNode, AtomMeta}

SkeletonKind(i) ==
  CASE i = 1 -> DocumentNode
    [] i = 2 -> AtomHtml
    [] i = 3 -> AtomHead
    [] i = 4 -> AtomBody

SkeletonParent(i) ==
  CASE i = 1 -> Nil
    [] i = 2 -> 1
    [] i = 3 -> 2
    [] i = 4 -> 2

KindVecs(n) ==
  {[i \in 1..n |-> IF i <= Skeleton THEN SkeletonKind(i) ELSE f[i]] :
      f \in [(Skeleton + 1)..n -> {CommentNode, AtomMeta, AtomDiv}]}

ParentVecs(n, k) ==
  {p \in {[i \in 1..n |-> IF i <= Skeleton THEN SkeletonParent(i) ELSE f[i]] :
             f \in [(Skeleton + 1)..n -> 1..(n - 1)]} :
      \A i \in (Skeleton + 1)..n :
          /\ p[i] < i /\ k[p[i]] \notin Leaves
          /\ k[i] = AtomMeta => k[p[i]] \in {AtomHead, AtomBody, AtomDiv}
          /\ k[i] = AtomDiv => k[p[i]] \in {AtomBody, AtomDiv}}

SetMin(S) == CHOOSE x \in S : \A y \in S : x <= y
SetMax(S) == CHOOSE x \in S : \A y \in S : x >= y

\* The place of node j among its siblings.
SiblingKey(n, lead, j) == IF lead /\ j = 2 THEN n + 1 ELSE j

MakeNode(n, p, k, lead, i) ==
  LET key(j) == SiblingKey(n, lead, j)
      first(S) == CHOOSE x \in S : \A y \in S : key(x) <= key(y)
      last(S) == CHOOSE x \in S : \A y \in S : key(x) >= key(y)
      kids == {j \in 1..n : p[j] = i}
      later == {j \in 1..n : key(j) > key(i) /\ p[j] = p[i]}
      earlier == {j \in 1..n : key(j) < key(i) /\ p[j] = p[i]}
  IN [Parent |-> p[i],
      FirstChild |-> IF kids = {} THEN Nil ELSE first(kids),
      LastChild |-> IF kids = {} THEN Nil ELSE last(kids),
      PrevSibling |-> IF i = 1 \/ earlier = {} THEN Nil ELSE last(earlier),
      NextSibling |-> IF i = 1 \/ later = {} THEN Nil ELSE first(later),
      Type |-> IF k[i] \in Atoms THEN ElementNode ELSE k[i],
      DataAtom |-> IF k[i] \in Atoms THEN k[i] ELSE NoAtom]

MakeTree(n, p, k, lead) == [i \in 1..n |-> MakeNode(n, p, k, lead, i)]

TreesUpTo(m) ==
  UNION {UNION {{MakeTree(n, p, k, lead) : p \in ParentVecs(n, k), lead \in BOOLEAN} :
                   k \in KindVecs(n)} :
            n \in Skeleton..(Skeleton + m)}

Trees == TreesUpTo(MaxExtra)

(***************************************************************************)
(* Predicates and accessors.                                               *)
(***************************************************************************)
isElem(n) == tree[n].Type = ElementNode

isText(n) == tree[n].Type = TextNode

Node == node

Level == level

(***************************************************************************)
(* Primitive moves.                                                        *)
(***************************************************************************)
NextSibling(c) ==
  IF tree[c.node].NextSibling = Nil
  THEN [node |-> c.node, level |-> c.level, err |-> ErrNoSuchRelative]
  ELSE [node |-> tree[c.node].NextSibling, level |-> c.level, err |-> NoErr]

PrevSibling(c) ==
  IF tree[c.node].PrevSibling = Nil
  THEN [node |-> c.node, level |-> c.level, err |-> ErrNoSuchRelative]
  ELSE [node |-> tree[c.node].PrevSibling, level |-> c.level, err |-> NoErr]

\* Parent with the nil check of lines 158-160 left out.
ParentNoCheck(c) ==
  [node |-> tree[c.node].Parent, level |-> c.level - 1, err |-> NoErr]

\* Parent with the level-- of line 162 left out.
ParentNoDecrement(c) ==
  IF tree[c.node].Parent = Nil
  THEN [node |-> c.node, level |-> c.level, err |-> ErrNoSuchRelative]
  ELSE [node |-> tree[c.node].Parent, level |-> c.level, err |-> NoErr]

Parent(c) ==
  IF tree[c.node].Parent = Nil
  THEN [node |-> c.node, level |-> c.level, err |-> ErrNoSuchRelative]
  ELSE [node |-> tree[c.node].Parent, level |-> c.level - 1, err |-> NoErr]

\* FirstChild with the level++ of line 172 moved before the nil check.
FirstChildEarlyIncrement(c) ==
  IF tree[c.node].FirstChild = Nil
  THEN [node |-> c.node, level |-> c.level + 1, err |-> ErrNoSuchRelative]
  ELSE [node |-> tree[c.node].FirstChild, level |-> c.level + 1, err |-> NoErr]

FirstChild(c) ==
  IF tree[c.node].FirstChild = Nil
  THEN [node |-> c.node, level |-> c.level, err |-> ErrNoSuchRelative]
  ELSE [node |-> tree[c.node].FirstChild, level |-> c.level + 1, err |-> NoErr]

\* LastChild following the FirstChild link.
LastChildAsFirst(c) ==
  IF tree[c.node].LastChild = Nil
  THEN [node |-> c.node, level |-> c.level, err |-> ErrNoSuchRelative]
  ELSE [node |-> tree[c.node].FirstChild, level |-> c.level + 1, err |-> NoErr]

\* LastChild with the level++ of line 182 left out.
LastChildNoIncrement(c) ==
  IF tree[c.node].LastChild = Nil
  THEN [node |-> c.node, level |-> c.level, err |-> ErrNoSuchRelative]
  ELSE [node |-> tree[c.node].LastChild, level |-> c.level, err |-> NoErr]

LastChild(c) ==
  IF tree[c.node].LastChild = Nil
  THEN [node |-> c.node, level |-> c.level, err |-> ErrNoSuchRelative]
  ELSE [node |-> tree[c.node].LastChild, level |-> c.level + 1, err |-> NoErr]

(***************************************************************************)
(* Ascending and descending sibling lookups.                               *)
(***************************************************************************)
\* The ascend loop with the restore of lines 120-121 left out.
RECURSIVE nextSiblingAscendingLoopNoRestore(_, _)
nextSiblingAscendingLoopNoRestore(saved, c) ==
  LET s == NextSibling(c)
  IN IF s.err = NoErr
     THEN s
     ELSE LET q == Parent(s)
          IN IF q.err = NoErr
             THEN nextSiblingAscendingLoopNoRestore(saved, q)
             ELSE [node |-> q.node, level |-> q.level, err |-> ErrNoSuchRelative]

\* The ascend loop giving up after the first failed NextSibling, without
\* the Parent call of line 118.
nextSiblingAscendingLoopNoAscend(saved, c) ==
  LET s == NextSibling(c)
  IN IF s.err = NoErr
     THEN s
     ELSE [node |-> saved.node, level |-> saved.level, err |-> ErrNoSuchRelative]

RECURSIVE nextSiblingAscendingLoop(_, _)
nextSiblingAscendingLoop(saved, c) ==
  LET s == NextSibling(c)
  IN IF s.err = NoErr
     THEN s
     ELSE LET q == Parent(s)
          IN IF q.err = NoErr
             THEN nextSiblingAscendingLoop(saved, q)
             ELSE [node |-> saved.node, level |-> saved.level, err |-> ErrNoSuchRelative]

nextSiblingAscending(c) == nextSiblingAscendingLoop(c, c)

\* The descent loop of lines 132-134 left out: stay on the previous sibling.
prevSiblingDescendingLoopNoDescent(c) ==
  [node |-> c.node, level |-> c.level, err |-> NoErr]

\* The descent of lines 132-134 as an if instead of a for: one LastChild.
prevSiblingDescendingLoopOnce(c) ==
  LET q == LastChild(c)
  IN [node |-> q.node, level |-> q.level, err |-> NoErr]

RECURSIVE prevSiblingDescendingLoop(_)
prevSiblingDescendingLoop(c) ==
  LET q == LastChild(c)
  IN IF q.err = NoErr
     THEN prevSiblingDescendingLoop(q)
     ELSE [node |-> q.node, level |-> q.level, err |-> NoErr]

prevSiblingDescending(c) ==
  LET s == PrevSibling(c)
  IN IF s.err # NoErr
     THEN [node |-> s.node, level |-> s.level, err |-> ErrNoSuchRelative]
     ELSE prevSiblingDescendingLoop(s)

(***************************************************************************)
(* Document-order stepping.                                                *)
(***************************************************************************)
Next(c) ==
  LET f == FirstChild(c)
  IN IF f.err = NoErr
     THEN f
     ELSE LET s == nextSiblingAscending(f)
          IN IF s.err = NoErr
             THEN s
             ELSE [node |-> s.node, level |-> s.level, err |-> ErrEndOfDoc]

\* Prev with the Parent fallback of lines 77-80 left out.
PrevNoParent(c) ==
  LET s == prevSiblingDescending(c)
  IN IF s.err = NoErr
     THEN s
     ELSE [node |-> s.node, level |-> s.level, err |-> ErrBegOfDoc]

Prev(c) ==
  LET s == prevSiblingDescending(c)
  IN IF s.err = NoErr
     THEN s
     ELSE LET q == Parent(s)
          IN IF q.err = NoErr
             THEN q
             ELSE [node |-> q.node, level |-> q.level, err |-> ErrBegOfDoc]

(***************************************************************************)
(* Filtered traversal.                                                     *)
(***************************************************************************)
\* NextElement stepping once before the first test, as NextElementByAtom does.
RECURSIVE NextElementStepFirstLoop(_)
NextElementStepFirstLoop(c) ==
  LET r == Next(c)
  IN IF r.err # NoErr
     THEN [node |-> r.node, level |-> r.level, err |-> ErrEndOfDoc]
     ELSE IF isElem(r.node)
          THEN [node |-> r.node, level |-> r.level, err |-> NoErr]
          ELSE NextElementStepFirstLoop(r)

NextElementStepFirst(c) == NextElementStepFirstLoop(c)

RECURSIVE NextElement(_)
NextElement(c) ==
  IF isElem(c.node)
  THEN [node |-> c.node, level |-> c.level, err |-> NoErr]
  ELSE LET r == Next(c)
       IN IF r.err # NoErr
          THEN [node |-> r.node, level |-> r.level, err |-> ErrEndOfDoc]
          ELSE NextElement(r)

\* PrevElement restoring the pre-call position when Prev fails.
RECURSIVE PrevElementRestoreLoop(_, _)
PrevElementRestoreLoop(saved, c) ==
  IF isElem(c.node)
  THEN [node |-> c.node, level |-> c.level, err |-> NoErr]
  ELSE LET r == Prev(c)
       IN IF r.err # NoErr
          THEN [node |-> saved.node, level |-> saved.level, err |-> ErrBegOfDoc]
          ELSE PrevElementRestoreLoop(saved, r)

PrevElementRestore(c) == PrevElementRestoreLoop(c, c)

RECURSIVE PrevElement(_)
PrevElement(c) ==
  IF isElem(c.node)
  THEN [node |-> c.node, level |-> c.level, err |-> NoErr]
  ELSE LET r == Prev(c)
       IN IF r.err # NoErr
          THEN [node |-> r.node, level |-> r.level, err |-> ErrBegOfDoc]
          ELSE PrevElement(r)

Reset(c) == [node |-> doc, level |-> 0, err |-> NoErr]

\* The search loop going back to the root when the document is exhausted.
RECURSIVE FirstElementByAtomLoopRewind(_, _)
FirstElementByAtomLoopRewind(c, a) ==
  IF isElem(c.node) /\ tree[c.node].DataAtom = a
  THEN [node |-> c.node, level |-> c.level, err |-> NoErr]
  ELSE LET r == Next(c)
       IN IF r.err # NoErr
          THEN [node |-> doc, level |-> 0, err |-> r.err]
          ELSE FirstElementByAtomLoopRewind(r, a)

RECURSIVE FirstElementByAtomLoop(_, _)
FirstElementByAtomLoop(c, a) ==
  IF isElem(c.node) /\ tree[c.node].DataAtom = a
  THEN [node |-> c.node, level |-> c.level, err |-> NoErr]
  ELSE LET r == Next(c)
       IN IF r.err # NoErr THEN r ELSE FirstElementByAtomLoop(r, a)

\* FirstElementByAtom with the p.Reset() of line 209 left out.
FirstElementByAtomNoReset(c, a) ==
  LET r == Next(c)
  IN IF r.err # NoErr THEN r ELSE FirstElementByAtomLoop(r, a)

FirstElementByAtom(c, a) ==
  LET r == Next(Reset(c))
  IN IF r.err # NoErr THEN r ELSE FirstElementByAtomLoop(r, a)

\* NextElementByAtom with the p.Reset() of FirstElementByAtom copied along.
NextElementByAtomFromRoot(c, a) == FirstElementByAtom(c, a)

RECURSIVE NextElementByAtomLoop(_, _)
NextElementByAtomLoop(c, a) ==
  IF isElem(c.node) /\ tree[c.node].DataAtom = a
  THEN [node |-> c.node, level |-> c.level, err |-> NoErr]
  ELSE LET r == Next(c)
       IN IF r.err # NoErr THEN r ELSE NextElementByAtomLoop(r, a)

\* NextElementByAtom with the first p.Next() of lines 233-236 left out.
NextElementByAtomNoStep(c, a) == NextElementByAtomLoop(c, a)

NextElementByAtom(c, a) ==
  LET r == Next(c)
  IN IF r.err # NoErr THEN r ELSE NextElementByAtomLoop(r, a)

Body(c) == FirstElementByAtom(c, AtomBody)

\* Parser.Head; Sequences already defines Head.
ParserHead(c) == FirstElementByAtom(c, AtomHead)

FirstMeta(c) == FirstElementByAtom(c, AtomMeta)

NextMeta(c) == NextElementByAtom(c, AtomMeta)

(***************************************************************************)
(* The Parser as a state machine.  op, arg, err, fromNode and fromLevel    *)
(* record the last call, its result and the fields before it; dir and      *)
(* trail record the nodes visited by the current run of consecutive Next   *)
(* ("fwd") or Prev ("bwd") calls, starting with the node the run began on, *)
(* or the nodes returned by the current run ("tag") of one first-by-atom   *)
(* call and the next-by-atom calls with the same atom that follow it;      *)
(* prior records, for a call that directly follows a call it is paired     *)
(* with (Next and Prev with each other, Parent after FirstChild or         *)
(* LastChild, NextElement and PrevElement after themselves), that earlier  *)
(* call and the fields before it.                                          *)
(***************************************************************************)
cur == [node |-> node, level |-> level]

NoPrior == [op |-> "none", err |-> NoErr, node |-> Nil, level |-> 0]

\* The callers of the statement-level specifications.  A thread calls the
\* methods of one Parser: p is "A" for the Parser of node and level, "B" for
\* the second Parser, other.
Threads == {1, 2}

IdleThread(p) ==
  [p |-> p, status |-> "idle", stack |-> <<>>, ret |-> NoErr,
   op |-> "none", a |-> NoAtom, from |-> [node |-> Nil, level |-> 0]]

Init ==
  /\ tree \in Trees
  /\ doc = 1
  /\ node = doc
  /\ level = 0
  /\ op = "NewParser"
  /\ arg = NoAtom
  /\ err = NoErr
  /\ fromNode = doc
  /\ fromLevel = 0
  /\ dir = "none"
  /\ trail = <<>>
  /\ prior = NoPrior
  /\ other = [node |-> doc, level |-> 0]
  /\ thr = [t \in Threads |-> IdleThread("A")]
  /\ raced = FALSE

Call(o, a, r) ==
  /\ node' = r.node
  /\ level' = r.level
  /\ err' = r.err
  /\ op' = o
  /\ arg' = a
  /\ fromNode' = node
  /\ fromLevel' = level
  /\ UNCHANGED <<tree, doc, other, thr, raced>>

Remember(S) ==
  IF op \in S
  THEN [op |-> op, err |-> err, node |-> fromNode, level |-> fromLevel]
  ELSE NoPrior

Move(o, a, r) ==
  /\ Call(o, a, r)
  /\ dir' = "none"
  /\ trail' = <<>>
  /\ prior' = NoPrior

Step(o, d, r) ==
  /\ Call(o, NoAtom, r)
  /\ dir' = d
  /\ trail' = IF dir = d
              THEN (IF r.err = NoErr THEN Append(trail, r.node) ELSE trail)
              ELSE (IF r.err = NoErr THEN <<node, r.node>> ELSE <<node>>)
  /\ prior' = Remember({"Next", "Prev"})

\* A call that starts a tag iteration: FirstElementByAtom and its kin.
SearchFirst(o, a, r) ==
  /\ Call(o, a, r)
  /\ dir' = "tag"
  /\ trail' = IF r.err = NoErr THEN <<r.node>> ELSE <<>>
  /\ prior' = NoPrior

\* A call that continues a tag iteration: NextElementByAtom and its kin.
SearchNext(o, a, r) ==
  /\ Call(o, a, r)
  /\ dir' = IF dir = "tag" /\ arg = a THEN "tag" ELSE "none"
  /\ trail' = IF dir = "tag" /\ arg = a
              THEN (IF r.err = NoErr THEN Append(trail, r.node) ELSE trail)
              ELSE <<>>
  /\ prior' = NoPrior

MoveAfter(o, r, S) ==
  /\ Call(o, NoAtom, r)
  /\ dir' = "none"
  /\ trail' = <<>>
  /\ prior' = Remember(S)

CallParent == MoveAfter("Parent", Parent(cur), {"FirstChild", "LastChild"})
CallFirstChild == Move("FirstChild", NoAtom, FirstChild(cur))
CallLastChild == Move("LastChild", NoAtom, LastChild(cur))
CallNextSibling == Move("NextSibling", NoAtom, NextSibling(cur))
CallPrevSibling == Move("PrevSibling", NoAtom, PrevSibling(cur))
CallNext == Step("Next", "fwd", Next(cur))
CallPrev == Step("Prev", "bwd", Prev(cur))
CallNextElement == MoveAfter("NextElement", NextElement(cur), {"NextElement"})
CallPrevElement == MoveAfter("PrevElement", PrevElement(cur), {"PrevElement"})
CallFirstElementByAtom == \E a \in OtherAtoms : SearchFirst("FirstElementByAtom", a, FirstElementByAtom(cur, a))
CallNextElementByAtom == \E a \in OtherAtoms : SearchNext("NextElementByAtom", a, NextElementByAtom(cur, a))
CallReset == Move("Reset", NoAtom, Reset(cur))
CallBody == SearchFirst("Body", AtomBody, Body(cur))
CallHead == SearchFirst("Head", AtomHead, ParserHead(cur))
CallFirstMeta == SearchFirst("FirstMeta", AtomMeta, FirstMeta(cur))
CallNextMeta == SearchNext("NextMeta", AtomMeta, NextMeta(cur))

Next_ ==
  \/ CallParent
  \/ CallFirstChild
  \/ CallLastChild
  \/ CallNextSibling
  \/ CallPrevSibling
  \/ CallNext
  \/ CallPrev
  \/ CallNextElement
  \/ CallPrevElement
  \/ CallFirstElementByAtom
  \/ CallNextElementByAtom
  \/ CallReset
  \/ CallBody
  \/ CallHead
  \/ CallFirstMeta
  \/ CallNextMeta

Spec == Init /\ [][Next_]_vars

(***************************************************************************)
(* The methods statement by statement.  A thread runs a stack of frames,   *)
(* one per method it is in; a frame holds the method fn, the place pc in   *)
(* it, the atom a it was called with and the locals n and l (a node and a  *)
(* level read from the Parser, or the node and level nextSiblingAscending  *)
(* saves).  One step is one read or one write of p.node or p.level, with   *)
(* the local control flow up to it; ret is the error the last finished     *)
(* callee returned.  A step returns the thread after it and the write it   *)
(* makes.  Dereferencing a nil p.node panics.                              *)
(***************************************************************************)
Frame(fn, a) == [fn |-> fn, pc |-> 0, a |-> a, n |-> Nil, l |-> 0]

Top(th) == th.stack[Len(th.stack)]

NoWrite(th) == [th |-> th, setN |-> FALSE, n |-> Nil, setL |-> FALSE, l |-> 0]

WriteNode(th, n) == [th |-> th, setN |-> TRUE, n |-> n, setL |-> FALSE, l |-> 0]

WriteLevel(th, l) == [th |-> th, setN |-> FALSE, n |-> Nil, setL |-> TRUE, l |-> l]

\* The thread at place pc of its current method, with locals n and l.
Goto(th, pc, n, l) ==
  [th EXCEPT !.stack[Len(th.stack)] = [@ EXCEPT !.pc = pc, !.n = n, !.l = l]]

At(th, pc) == Goto(th, pc, Top(th).n, Top(th).l)

\* The thread calling method fn, to continue at place pc on its return.
Invoke(th, pc, fn, a) == [At(th, pc) EXCEPT !.stack = Append(@, Frame(fn, a)), !.ret = NoErr]

\* The thread returning error e from its current method.
Return(th, e) ==
  LET rest == SubSeq(th.stack, 1, Len(th.stack) - 1)
  IN IF rest = <<>>
     THEN [th EXCEPT !.stack = rest, !.ret = e, !.status = "idle",
                     !.op = "none", !.a = NoAtom, !.from = [node |-> Nil, level |-> 0]]
     ELSE [th EXCEPT !.stack = rest, !.ret = e]

Panic(th) == [th EXCEPT !.stack = <<>>, !.status = "panicked"]

\* A sibling move: lines 139-145 and 148-154, link being the field followed.
ExecSibling(th, c, link) ==
  LET f == Top(th)
  IN CASE f.pc = 0 ->
            IF c.node = Nil THEN NoWrite(Panic(th))
            ELSE IF link[c.node] = Nil THEN NoWrite(Return(th, ErrNoSuchRelative))
            ELSE NoWrite(At(th, 1))
       [] f.pc = 1 ->
            IF c.node = Nil THEN NoWrite(Panic(th))
            ELSE NoWrite(Goto(th, 2, link[c.node], f.l))
       [] f.pc = 2 -> WriteNode(Return(th, NoErr), f.n)

\* A level-changing move that leaves p.level as it was.
ExecVerticalKeepLevel(th, c, link, d) ==
  LET f == Top(th)
  IN CASE f.pc = 0 ->
            IF c.node = Nil THEN NoWrite(Panic(th))
            ELSE IF link[c.node] = Nil THEN NoWrite(Return(th, ErrNoSuchRelative))
            ELSE NoWrite(At(th, 1))
       [] f.pc = 1 ->
            IF c.node = Nil THEN NoWrite(Panic(th))
            ELSE NoWrite(Goto(th, 2, link[c.node], f.l))
       [] f.pc = 2 -> WriteNode(Return(th, NoErr), f.n)

\* A level-changing move: lines 157-164, 167-174 and 177-184, link being
\* the field followed and d the change of level.
ExecVertical(th, c, link, d) ==
  LET f == Top(th)
  IN CASE f.pc = 0 ->
            IF c.node = Nil THEN NoWrite(Panic(th))
            ELSE IF link[c.node] = Nil THEN NoWrite(Return(th, ErrNoSuchRelative))
            ELSE NoWrite(At(th, 1))
       [] f.pc = 1 ->
            IF c.node = Nil THEN NoWrite(Panic(th))
            ELSE NoWrite(Goto(th, 2, link[c.node], f.l))
       [] f.pc = 2 -> WriteNode(At(th, 3), f.n)
       [] f.pc = 3 -> NoWrite(Goto(th, 4, f.n, c.level))
       [] f.pc = 4 -> WriteLevel(Return(th, NoErr), f.l + d)

ExecNextSibling(th, c) == ExecSibling(th, c, [i \in DOMAIN tree |-> tree[i].NextSibling])

ExecPrevSibling(th, c) == ExecSibling(th, c, [i \in DOMAIN tree |-> tree[i].PrevSibling])

ExecParent(th, c) == ExecVertical(th, c, [i \in DOMAIN tree |-> tree[i].Parent], 0 - 1)

ExecFirstChild(th, c) == ExecVertical(th, c, [i \in DOMAIN tree |-> tree[i].FirstChild], 1)

ExecLastChild(th, c) == ExecVertical(th, c, [i \in DOMAIN tree |-> tree[i].LastChild], 1)

\* The ascent that goes on, instead of giving up, when p.Parent() fails.
ExecNextSiblingAscendingNoExit(th, c) ==
  LET f == Top(th)
  IN CASE f.pc = 0 -> NoWrite(Goto(th, 1, c.node, f.l))
       [] f.pc = 1 -> NoWrite(Invoke(Goto(th, 1, f.n, c.level), 2, "NextSibling", NoAtom))
       [] f.pc = 2 ->
            IF th.ret = NoErr THEN NoWrite(Return(th, NoErr))
            ELSE NoWrite(Invoke(th, 3, "Parent", NoAtom))
       [] f.pc = 3 -> NoWrite(Invoke(th, 2, "NextSibling", NoAtom))

ExecNextSiblingAscending(th, c) ==
  LET f == Top(th)
  IN CASE f.pc = 0 -> NoWrite(Goto(th, 1, c.node, f.l))
       [] f.pc = 1 -> NoWrite(Invoke(Goto(th, 1, f.n, c.level), 2, "NextSibling", NoAtom))
       [] f.pc = 2 ->
            IF th.ret = NoErr THEN NoWrite(Return(th, NoErr))
            ELSE NoWrite(Invoke(th, 3, "Parent", NoAtom))
       [] f.pc = 3 ->
            IF th.ret = NoErr THEN NoWrite(Invoke(th, 2, "NextSibling", NoAtom))
            ELSE WriteNode(At(th, 4), f.n)
       [] f.pc = 4 -> WriteLevel(Return(th, ErrNoSuchRelative), f.l)

ExecPrevSiblingDescending(th, c) ==
  LET f == Top(th)
  IN CASE f.pc = 0 -> NoWrite(Invoke(th, 1, "PrevSibling", NoAtom))
       [] f.pc = 1 ->
            IF th.ret # NoErr THEN NoWrite(Return(th, ErrNoSuchRelative))
            ELSE NoWrite(Invoke(th, 2, "LastChild", NoAtom))
       [] f.pc = 2 ->
            IF th.ret = NoErr THEN NoWrite(Invoke(th, 2, "LastChild", NoAtom))
            ELSE NoWrite(Return(th, NoErr))

ExecNext(th, c) ==
  LET f == Top(th)
  IN CASE f.pc = 0 -> NoWrite(Invoke(th, 1, "FirstChild", NoAtom))
       [] f.pc = 1 ->
            IF th.ret = NoErr THEN NoWrite(Return(th, NoErr))
            ELSE NoWrite(Invoke(th, 2, "nextSiblingAscending", NoAtom))
       [] f.pc = 2 ->
            IF th.ret = NoErr THEN NoWrite(Return(th, NoErr))
            ELSE NoWrite(Return(th, ErrEndOfDoc))

ExecPrev(th, c) ==
  LET f == Top(th)
  IN CASE f.pc = 0 -> NoWrite(Invoke(th, 1, "prevSiblingDescending", NoAtom))
       [] f.pc = 1 ->
            IF th.ret = NoErr THEN NoWrite(Return(th, NoErr))
            ELSE NoWrite(Invoke(th, 2, "Parent", NoAtom))
       [] f.pc = 2 ->
            IF th.ret = NoErr THEN NoWrite(Return(th, NoErr))
            ELSE NoWrite(Return(th, ErrBegOfDoc))

\* Lines 85-94 and 97-106: step is Next or Prev, e the error of the method.
ExecElementStep(th, c, step, e) ==
  LET f == Top(th)
  IN CASE f.pc = 0 ->
            IF c.node = Nil THEN NoWrite(Panic(th))
            ELSE IF isElem(c.node) THEN NoWrite(Return(th, NoErr))
            ELSE NoWrite(Invoke(th, 1, step, NoAtom))
       [] f.pc = 1 ->
            IF th.ret # NoErr THEN NoWrite(Return(th, e))
            ELSE NoWrite(At(th, 0))

ExecNextElement(th, c) == ExecElementStep(th, c, "Next", ErrEndOfDoc)

ExecPrevElement(th, c) == ExecElementStep(th, c, "Prev", ErrBegOfDoc)

ExecReset(th, c) ==
  LET f == Top(th)
  IN CASE f.pc = 0 -> WriteNode(At(th, 1), doc)
       [] f.pc = 1 -> WriteLevel(Return(th, NoErr), 0)

\* The search of lines 210-220 and 233-243, from its first p.Next().
ExecSearch(th, c, first) ==
  LET f == Top(th)
  IN CASE f.pc = first -> NoWrite(Invoke(th, first + 1, "Next", NoAtom))
       [] f.pc = first + 1 ->
            IF th.ret # NoErr THEN NoWrite(Return(th, th.ret))
            ELSE NoWrite(At(th, first + 2))
       [] f.pc = first + 2 ->
            IF c.node = Nil THEN NoWrite(Panic(th))
            ELSE IF isElem(c.node) /\ tree[c.node].DataAtom = f.a
                 THEN NoWrite(Return(th, NoErr))
                 ELSE NoWrite(Invoke(th, first + 1, "Next", NoAtom))

ExecFirstElementByAtom(th, c) ==
  IF Top(th).pc = 0
  THEN NoWrite(Invoke(th, 1, "Reset", NoAtom))
  ELSE ExecSearch(th, c, 1)

ExecNextElementByAtom(th, c) == ExecSearch(th, c, 0)

Exec(th, c) ==
  LET fn == Top(th).fn
  IN CASE fn = "NextSibling" -> ExecNextSibling(th, c)
       [] fn = "PrevSibling" -> ExecPrevSibling(th, c)
       [] fn = "Parent" -> ExecParent(th, c)
       [] fn = "FirstChild" -> ExecFirstChild(th, c)
       [] fn = "LastChild" -> ExecLastChild(th, c)
       [] fn = "nextSiblingAscending" -> ExecNextSiblingAscending(th, c)
       [] fn = "prevSiblingDescending" -> ExecPrevSiblingDescending(th, c)
       [] fn = "Next" -> ExecNext(th, c)
       [] fn = "Prev" -> ExecPrev(th, c)
       [] fn = "NextElement" -> ExecNextElement(th, c)
       [] fn = "PrevElement" -> ExecPrevElement(th, c)
       [] fn = "Reset" -> ExecReset(th, c)
       [] fn = "FirstElementByAtom" -> ExecFirstElementByAtom(th, c)
       [] fn = "NextElementByAtom" -> ExecNextElementByAtom(th, c)

\* The fields of the Parser p.
Fields(p) == IF p = "A" THEN [node |-> node, level |-> level] ELSE other

\* Writes that go to the fields of one Parser whatever the receiver is.
StoreShared(p, r) ==
  /\ node' = (IF r.setN THEN r.n ELSE node)
  /\ level' = (IF r.setL THEN r.l ELSE level)
  /\ other' = other

\* The writes of a step go to the fields of the receiver p.
Store(p, r) ==
  LET c == Fields(p)
      w == [node |-> IF r.setN THEN r.n ELSE c.node,
            level |-> IF r.setL THEN r.l ELSE c.level]
  IN IF p = "A"
     THEN node' = w.node /\ level' = w.level /\ other' = other
     ELSE other' = w /\ node' = node /\ level' = level

\* Thread t calls method o with atom a.
Begin(t, o, a) ==
  /\ thr[t].status = "idle"
  /\ thr' = [thr EXCEPT ![t] = [@ EXCEPT !.status = "running", !.stack = <<Frame(o, a)>>,
                                          !.ret = NoErr, !.op = o, !.a = a,
                                          !.from = Fields(thr[t].p)]]
  /\ raced' = (raced \/ \E u \in Threads \ {t} :
                            thr[u].status = "running" /\ thr[u].p = thr[t].p)
  /\ UNCHANGED <<tree, doc, node, level, other, hist>>

\* Thread t takes the next step of the method it is in, one of Methods.
Run(t, Methods) ==
  /\ thr[t].status = "running"
  /\ Top(thr[t]).fn \in Methods
  /\ LET r == Exec(thr[t], Fields(thr[t].p))
     IN /\ thr' = [thr EXCEPT ![t] = r.th]
        /\ Store(thr[t].p, r)
  /\ UNCHANGED <<tree, doc, raced, hist>>

Primitives == {"Parent", "FirstChild", "LastChild", "NextSibling", "PrevSibling"}
Lookups == {"nextSiblingAscending", "prevSiblingDescending"}
Steppers == {"Next", "Prev"}
Filters == {"NextElement", "PrevElement"}
Searches == {"FirstElementByAtom", "NextElementByAtom"}

InitFine(ps) ==
  /\ tree \in TreesUpTo(MaxExtraFine)
  /\ doc = 1
  /\ node = doc
  /\ level = 0
  /\ op = "NewParser"
  /\ arg = NoAtom
  /\ err = NoErr
  /\ fromNode = doc
  /\ fromLevel = 0
  /\ dir = "none"
  /\ trail = <<>>
  /\ prior = NoPrior
  /\ other = [node |-> doc, level |-> 0]
  /\ thr = [t \in Threads |-> IdleThread(ps[t])]
  /\ raced = FALSE

(***************************************************************************)
(* One caller running every method statement by statement.                 *)
(***************************************************************************)
BeginAny ==
  \/ \E o \in Primitives \cup Steppers \cup Filters \cup {"Reset"} : Begin(1, o, NoAtom)
  \/ \E o \in Searches, a \in Atoms : Begin(1, o, a)

RunPrimitive == Run(1, Primitives)
RunLookup == Run(1, Lookups)
RunStepper == Run(1, Steppers)
RunFilter == Run(1, Filters)
RunReset == Run(1, {"Reset"})
RunSearch == Run(1, Searches)

NextSteps ==
  \/ BeginAny
  \/ RunPrimitive
  \/ RunLookup
  \/ RunStepper
  \/ RunFilter
  \/ RunReset
  \/ RunSearch

SpecSteps == InitFine(<<"A", "A">>) /\ [][NextSteps]_vars /\ WF_vars(NextSteps)

(***************************************************************************)
(* Two Parser values over one parsed tree, each used by its own goroutine, *)
(* their statements interleaved in any order.                              *)
(***************************************************************************)
\* The calls made: Next and Prev, which between them call every one of the
\* five primitive moves, and the two primitive moves that change the level.
Moves == Steppers \cup {"Parent", "FirstChild"}

CallOwn == \E t \in Threads, o \in Moves : Begin(t, o, NoAtom)

StepOwn == \E t \in Threads : Run(t, Primitives \cup Lookups \cup Steppers)

NextOwn == CallOwn \/ StepOwn

SpecOwn == InitFine(<<"A", "B">>) /\ [][NextOwn]_vars

(***************************************************************************)
(* One Parser value used by two goroutines without synchronisation: the    *)
(* reads and writes of p.node and p.level of their calls interleave.  The  *)
(* first two calls that overlap are followed to their end and no call is   *)
(* begun after them, which keeps p.level in a finite range.                *)
(***************************************************************************)
SharedMoves == {"Parent", "FirstChild", "Next"}

CallShared == ~raced /\ \E t \in Threads, o \in SharedMoves : Begin(t, o, NoAtom)

StepShared == \E t \in Threads : Run(t, Primitives \cup Lookups \cup Steppers)

NextShared == CallShared \/ StepShared

SpecShared == InitFine(<<"A", "A">>) /\ [][NextShared]_vars

\* No goroutine is inside a call.
Quiescent == \A t \in Threads : thr[t].status # "running"

\* Method o with atom a run alone, without interruption, from the fields c.
Alone(o, a, c) ==
  CASE o = "Parent" -> Parent(c)
    [] o = "FirstChild" -> FirstChild(c)
    [] o = "LastChild" -> LastChild(c)
    [] o = "NextSibling" -> NextSibling(c)
    [] o = "PrevSibling" -> PrevSibling(c)
    [] o = "Next" -> Next(c)
    [] o = "Prev" -> Prev(c)
    [] o = "NextElement" -> NextElement(c)
    [] o = "PrevElement" -> PrevElement(c)
    [] o = "Reset" -> Reset(c)
    [] o = "FirstElementByAtom" -> FirstElementByAtom(c, a)
    [] o = "NextElementByAtom" -> NextElementByAtom(c, a)

(***************************************************************************)
(* Reference notions of the tree, defined from its links alone: the true   *)
(* depth of a node and the document (pre-) order.                          *)
(***************************************************************************)
RECURSIVE TrueDepth(_)
TrueDepth(n) == IF tree[n].Parent = Nil THEN 0 ELSE 1 + TrueDepth(tree[n].Parent)

RECURSIVE PreOrderFrom(_)
RECURSIVE PreOrderSiblings(_)
PreOrderSiblings(n) ==
  IF n = Nil THEN <<>> ELSE PreOrderFrom(n) \o PreOrderSiblings(tree[n].NextSibling)

PreOrderFrom(n) == <<n>> \o PreOrderSiblings(tree[n].FirstChild)

PreOrder == PreOrderFrom(doc)

Pos(n) == LET po == PreOrder IN CHOOSE i \in 1..Len(po) : po[i] = n

LastNode == PreOrder[Len(PreOrder)]

Reverse(s) == [i \in 1..Len(s) |-> s[Len(s) + 1 - i]]

IsPrefix(s, t) == Len(s) <= Len(t) /\ \A i \in 1..Len(s) : s[i] = t[i]

Matches(n, a) == tree[n].Type = ElementNode /\ tree[n].DataAtom = a

RECURSIVE AncestorsOrSelf(_)
AncestorsOrSelf(n) ==
  IF tree[n].Parent = Nil THEN {n} ELSE {n} \cup AncestorsOrSelf(tree[n].Parent)

\* The edge a primitive move follows from node n.
Edge(o, n) ==
  CASE o = "Parent" -> tree[n].Parent
    [] o = "FirstChild" -> tree[n].FirstChild
    [] o = "LastChild" -> tree[n].LastChild
    [] o = "NextSibling" -> tree[n].NextSibling
    [] o = "PrevSibling" -> tree[n].PrevSibling

Unmoved == node = fromNode /\ level = fromLevel

(***************************************************************************)
(* C1: after any sequence of public operations, succeeding or failing,     *)
(* Level() is the true tree depth of Node() relative to the root.          *)
(***************************************************************************)
C1_DepthInvariant == Level = TrueDepth(Node)

\* A Next that climbed out of a subtree: the ascend-search changed level.
C1_Witness == op = "Next" /\ err = NoErr /\ level < fromLevel

(***************************************************************************)
(* C2: a primitive move whose edge does not exist returns NoSuchRelative   *)
(* and leaves node and level as they were before the call.                 *)
(***************************************************************************)
C2_FailingPrimitiveUnchanged ==
  (op \in Primitives /\ Edge(op, fromNode) = Nil) =>
      (err = ErrNoSuchRelative /\ Unmoved)

\* FirstChild failed on a leaf below the root.
C2_Witness == op = "FirstChild" /\ err = ErrNoSuchRelative /\ fromLevel >= 1

(***************************************************************************)
(* C3: Next fails exactly when the node it was called on has no first      *)
(* child and no ancestor-or-self with a next sibling; it then returns      *)
(* EndOfDoc with node and level restored to their pre-call values.         *)
(***************************************************************************)
NoSuccessor(n) ==
  /\ tree[n].FirstChild = Nil
  /\ \A m \in AncestorsOrSelf(n) : tree[m].NextSibling = Nil

C3_NextFailsOnlyAtEnd ==
  op = "Next" =>
      /\ (err # NoErr) <=> NoSuccessor(fromNode)
      /\ (err # NoErr) => (err = ErrEndOfDoc /\ Unmoved)

\* Next failed two or more levels below the root: the ascend-search
\* passed an intermediate ancestor and reached the root before failing.
C3_Witness == op = "Next" /\ err = ErrEndOfDoc /\ fromLevel >= 2

(***************************************************************************)
(* C4: Prev fails only on the root, returning BegOfDoc with node and level *)
(* unchanged; from every other node it succeeds.                           *)
(***************************************************************************)
C4_PrevFailsOnlyAtRoot ==
  op = "Prev" =>
      /\ (err # NoErr) <=> (fromNode = doc)
      /\ (err # NoErr) => (err = ErrBegOfDoc /\ Unmoved)

\* Prev succeeded from a first child by ascending to its parent.
C4_Witness ==
  /\ op = "Prev" /\ err = NoErr
  /\ tree[fromNode].PrevSibling = Nil /\ node = tree[fromNode].Parent

(***************************************************************************)
(* C5: Next repeated from the root visits every node exactly once in       *)
(* pre-order and then fails with EndOfDoc; Prev repeated from the last     *)
(* node visits the same nodes in reverse order and then fails with         *)
(* BegOfDoc on the root.                                                   *)
(***************************************************************************)
Range(s) == {s[i] : i \in 1..Len(s)}

C5_FullTraversal ==
  /\ Range(PreOrder) = DOMAIN tree /\ Len(PreOrder) = Cardinality(DOMAIN tree)
  /\ (dir = "fwd" /\ trail[1] = doc) =>
        /\ IsPrefix(trail, PreOrder)
        /\ (err # NoErr) => (err = ErrEndOfDoc /\ trail = PreOrder)
  /\ (dir = "bwd" /\ trail[1] = LastNode) =>
        /\ IsPrefix(trail, Reverse(PreOrder))
        /\ (err # NoErr) => (err = ErrBegOfDoc /\ trail = Reverse(PreOrder) /\ node = doc)

\* A complete backward walk over a tree that both branches and nests.
C5_Witness ==
  /\ dir = "bwd" /\ trail = Reverse(PreOrder) /\ err = ErrBegOfDoc
  /\ Len(trail) >= 4
  /\ \E n \in DOMAIN tree : TrueDepth(n) >= 2
  /\ \E n \in DOMAIN tree : tree[n].NextSibling # Nil

(***************************************************************************)
(* C6: a successful Next followed by Prev, and a successful Prev followed  *)
(* by Next, each restore the original node and level.                      *)
(***************************************************************************)
C6_NextPrevInverse ==
  /\ (op = "Prev" /\ prior.op = "Next" /\ prior.err = NoErr) =>
        (err = NoErr /\ node = prior.node /\ level = prior.level)
  /\ (op = "Next" /\ prior.op = "Prev" /\ prior.err = NoErr) =>
        (err = NoErr /\ node = prior.node /\ level = prior.level)

\* Next climbed from a nested last child to an uncle and Prev came back.
C6_Witness ==
  /\ op = "Prev" /\ prior.op = "Next" /\ prior.err = NoErr
  /\ fromLevel < prior.level /\ node = prior.node

(***************************************************************************)
(* C7: a successful NextElementByAtom(tag) never returns the node the      *)
(* cursor stood on; it returns the earliest Element with that tag that is  *)
(* strictly later in document order.                                       *)
(***************************************************************************)
NextOps == {"NextElementByAtom", "NextMeta"}
FirstOps == {"FirstElementByAtom", "Body", "Head", "FirstMeta"}

C7_NextByAtomStrictlyLater ==
  (op \in NextOps /\ err = NoErr) =>
      /\ node # fromNode
      /\ Matches(node, arg)
      /\ Pos(node) > Pos(fromNode)
      /\ \A m \in DOMAIN tree :
            (Pos(fromNode) < Pos(m) /\ Pos(m) < Pos(node)) => ~Matches(m, arg)

\* The search started on an Element that itself carries the tag.
C7_Witness == op = "NextElementByAtom" /\ err = NoErr /\ Matches(fromNode, arg)

(***************************************************************************)
(* C8: FirstElementByAtom(tag), from any position, lands on the first      *)
(* non-root Element with that tag in document order, at its true depth,    *)
(* whenever such an Element exists.                                        *)
(***************************************************************************)
FirstMatch(a) ==
  LET S == {i \in 2..Len(PreOrder) : Matches(PreOrder[i], a)}
  IN IF S = {} THEN Nil ELSE PreOrder[SetMin(S)]

C8_FirstByAtomPositionFree ==
  (op \in FirstOps /\ FirstMatch(arg) # Nil) =>
      /\ err = NoErr
      /\ node = FirstMatch(arg)
      /\ node # doc
      /\ isElem(node) /\ tree[node].DataAtom = arg
      /\ level = TrueDepth(node)

\* Body called from a node after the body element, which sits at depth 2
\* behind an element with another tag.
C8_Witness ==
  /\ op = "Body" /\ err = NoErr /\ level = 2
  /\ Pos(fromNode) > Pos(node)
  /\ \E m \in DOMAIN tree : Pos(m) < Pos(node) /\ isElem(m) /\ tree[m].DataAtom # arg

(***************************************************************************)
(* C9: a tag search without a match fails with EndOfDoc and leaves the     *)
(* cursor on the last node in document order, at that node's depth.        *)
(***************************************************************************)
NoMatch ==
  \/ op \in FirstOps /\ FirstMatch(arg) = Nil
  \/ op \in NextOps /\ \A m \in DOMAIN tree : Pos(m) > Pos(fromNode) => ~Matches(m, arg)

C9_FailedSearchEndsOnLastNode ==
  (op \in FirstOps \cup NextOps /\ (NoMatch \/ err # NoErr)) =>
      /\ NoMatch
      /\ err = ErrEndOfDoc
      /\ node = LastNode
      /\ level = TrueDepth(LastNode)

\* FirstMeta failed, called away from the last node, which is nested.
C9_Witness ==
  /\ op = "FirstMeta" /\ err = ErrEndOfDoc
  /\ fromNode # LastNode /\ LastNode # doc /\ level >= 2

(***************************************************************************)
(* C10: NextElement moves to the next Element after the node it was called *)
(* on and PrevElement to the previous Element before it, when one exists;  *)
(* each fails only when no such Element exists.                            *)
(***************************************************************************)
ElemAfter(n) ==
  LET S == {i \in 1..Len(PreOrder) : i > Pos(n) /\ isElem(PreOrder[i])}
  IN IF S = {} THEN Nil ELSE PreOrder[SetMin(S)]

ElemBefore(n) ==
  LET S == {i \in 1..Len(PreOrder) : i < Pos(n) /\ isElem(PreOrder[i])}
  IN IF S = {} THEN Nil ELSE PreOrder[SetMax(S)]

C10_ElementStepMoves ==
  /\ op = "NextElement" =>
        IF ElemAfter(fromNode) # Nil
        THEN err = NoErr /\ node = ElemAfter(fromNode)
        ELSE err = ErrEndOfDoc
  /\ op = "PrevElement" =>
        IF ElemBefore(fromNode) # Nil
        THEN err = NoErr /\ node = ElemBefore(fromNode)
        ELSE err = ErrBegOfDoc

(***************************************************************************)
(* C11: a failed NextElement reports EndOfDoc and leaves the cursor on the *)
(* last node in document order, a failed PrevElement reports BegOfDoc and  *)
(* leaves it on the root, each with the matching level and not restored to *)
(* the pre-call position; a failed primitive move, Next or Prev leaves     *)
(* node and level as before the call.                                      *)
(***************************************************************************)
C11_RollbackAsymmetry ==
  /\ (op = "NextElement" /\ err # NoErr) =>
        (err = ErrEndOfDoc /\ node = LastNode /\ level = TrueDepth(LastNode))
  /\ (op = "PrevElement" /\ err # NoErr) =>
        (err = ErrBegOfDoc /\ node = doc /\ level = 0)
  /\ (op \in Primitives \cup {"Next", "Prev"} /\ err # NoErr) => Unmoved

\* PrevElement failed from a node before <html> and left the cursor on
\* the root instead.
C11_Witness ==
  /\ op = "PrevElement" /\ err = ErrBegOfDoc
  /\ fromNode # doc /\ node = doc /\ fromLevel # level

(***************************************************************************)
(* C12: a successful primitive move follows exactly one edge: Parent to    *)
(* the parent with level - 1, FirstChild and LastChild to the first / last *)
(* child with level + 1, NextSibling and PrevSibling to the adjacent       *)
(* sibling with level unchanged.                                           *)
(***************************************************************************)
LevelChange(o) ==
  CASE o = "Parent" -> 0 - 1
    [] o \in {"FirstChild", "LastChild"} -> 1
    [] o \in {"NextSibling", "PrevSibling"} -> 0

C12_PrimitiveFollowsOneEdge ==
  op \in Primitives =>
      /\ (err = NoErr) <=> (Edge(op, fromNode) # Nil)
      /\ (err = NoErr) =>
            /\ node = Edge(op, fromNode)
            /\ level = fromLevel + LevelChange(op)

\* LastChild succeeded on a node whose last child is not its first child.
C12_Witness ==
  /\ op = "LastChild" /\ err = NoErr
  /\ tree[fromNode].FirstChild # tree[fromNode].LastChild

(***************************************************************************)
(* C13: from a node with a child, FirstChild followed by Parent, and       *)
(* LastChild followed by Parent, return to the original node and level.    *)
(***************************************************************************)
C13_ChildParentRoundTrip ==
  (op = "Parent" /\ prior.op \in {"FirstChild", "LastChild"} /\ prior.err = NoErr) =>
      (err = NoErr /\ node = prior.node /\ level = prior.level)

\* LastChild then Parent, below the root, on a node with several children.
C13_Witness ==
  /\ op = "Parent" /\ err = NoErr
  /\ prior.op = "LastChild" /\ prior.err = NoErr /\ prior.level >= 1
  /\ tree[prior.node].FirstChild # tree[prior.node].LastChild

(***************************************************************************)
(* C15: the current node is never nil and always a node of the tree rooted *)
(* at doc, and doc is still the root NewParser set.                        *)
(***************************************************************************)
C15_CurrentInTree ==
  /\ node # Nil
  /\ node \in DOMAIN tree
  /\ doc \in AncestorsOrSelf(node)
  /\ doc = 1 /\ tree[doc].Parent = Nil /\ tree[doc].Type = DocumentNode

\* Reset read doc to come back from a node two or more levels down.
C15_Witness == op = "Reset" /\ fromLevel >= 2 /\ node = doc

(***************************************************************************)
(* C19: when the node Prev is called on has a previous sibling, Prev       *)
(* succeeds and lands on the deepest node of that sibling's last-child     *)
(* chain, with the level raised by the number of LastChild descents.       *)
(***************************************************************************)
RECURSIVE DeepestLast(_)
DeepestLast(n) == IF tree[n].LastChild = Nil THEN n ELSE DeepestLast(tree[n].LastChild)

RECURSIVE Descents(_)
Descents(n) == IF tree[n].LastChild = Nil THEN 0 ELSE 1 + Descents(tree[n].LastChild)

C19_PrevDescendsLastChain ==
  (op = "Prev" /\ tree[fromNode].PrevSibling # Nil) =>
      /\ err = NoErr
      /\ node = DeepestLast(tree[fromNode].PrevSibling)
      /\ tree[node].LastChild = Nil
      /\ level = fromLevel + Descents(tree[fromNode].PrevSibling)

\* Prev went down two or more levels below the previous sibling.
C19_Witness ==
  /\ op = "Prev" /\ err = NoErr /\ tree[fromNode].PrevSibling # Nil
  /\ level >= fromLevel + 2

RECURSIVE MatchesIn(_, _)
MatchesIn(s, a) ==
  IF s = <<>>
  THEN <<>>
  ELSE (IF Matches(s[1], a) THEN <<s[1]>> ELSE <<>>) \o MatchesIn(Tail(s), a)

MatchSeq(a) == MatchesIn(Tail(PreOrder), a)

C18_TagIterationComplete ==
  dir = "tag" =>
      /\ IsPrefix(trail, MatchSeq(arg))
      /\ (err = NoErr) => (trail # <<>> /\ node = trail[Len(trail)])
      /\ (err # NoErr) => (err = ErrEndOfDoc /\ trail = MatchSeq(arg))

\* FirstMeta and NextMeta returned two meta elements and the next NextMeta
\* reported the end of the document.
C18_Witness ==
  /\ dir = "tag" /\ op = "NextMeta" /\ err = ErrEndOfDoc
  /\ Len(trail) >= 2

(***************************************************************************)
(* C14: every operation terminates.  Run statement by statement on a       *)
(* finite tree built by html.Parse, from any state earlier calls left the  *)
(* Parser in, every call that has begun returns to its caller (with a nil  *)
(* or a non-nil error, never by a panic): the ascent of Next, the descent  *)
(* of Prev and the searches of NextElement, PrevElement,                   *)
(* FirstElementByAtom and NextElementByAtom all end.                       *)
(***************************************************************************)
C14_Terminates == (thr[1].status = "running") ~> (thr[1].status = "idle")

\* A search whose Next is in its ascent, two levels above where it began.
C14_Witness ==
  /\ thr[1].status = "running"
  /\ thr[1].op \in Searches
  /\ Len(thr[1].stack) = 3
  /\ Top(thr[1]).fn = "nextSiblingAscending"
  /\ Top(thr[1]).pc = 3
  /\ level = Top(thr[1]).l - 2
  /\ thr[1].ret = NoErr
(***************************************************************************)
(* C16: independent cursors do not interfere.  With two Parsers over one   *)
(* tree and the statements of their calls interleaved in any order, no     *)
(* step changes the tree, a step of one goroutine leaves the fields of the *)
(* other goroutine's Parser alone, and a call that returns leaves its      *)
(* Parser on the node, at the level and with the error that the same call  *)
(* run alone from the same fields gives.                                   *)
(***************************************************************************)
C16_StepOf(t) ==
  LET p == thr[t].p
      was == Fields(p)
      now == IF p = "A" THEN [node |-> node', level |-> level'] ELSE other'
      alone == Alone(thr[t].op, thr[t].a, thr[t].from)
  IN /\ thr'[t] = thr[t] => now = was
     /\ thr'[t].status # "panicked"
     /\ (thr[t].status = "running" /\ thr'[t].status = "idle") =>
          /\ now.node = alone.node
          /\ now.level = alone.level
          /\ thr'[t].ret = alone.err

C16_Independent == [][tree' = tree /\ \A t \in Threads : C16_StepOf(t)]_vars

\* Both goroutines are inside a call that has already moved its own Parser,
\* one of them in the ascent of Next, and the two Parsers are on different nodes.
C16_Witness ==
  /\ \A t \in Threads : thr[t].status = "running" /\ Fields(thr[t].p) # thr[t].from
  /\ thr[1].op = "Next" /\ Top(thr[1]).fn = "Parent"
  /\ thr[2].op = "Parent" /\ Top(thr[2]).pc = 3
  /\ node # other.node
(***************************************************************************)
(* C17: a Parser shared by two goroutines without synchronisation is not   *)
(* safe.  As long as no two calls on the Parser have overlapped, every     *)
(* state between calls has p.node in the tree and p.level equal to the     *)
(* depth of p.node, and no call panics; C17_Witness is the state the       *)
(* overlap of two calls reaches, in which p.level is not the depth of      *)
(* p.node.                                                                 *)
(***************************************************************************)
C17_SafeUntilOverlap ==
  (Quiescent /\ ~raced) =>
    /\ \A t \in Threads : thr[t].status = "idle"
    /\ node \in DOMAIN tree
    /\ level = TrueDepth(node)

\* Two calls have overlapped and both have returned; the Parser is on a node
\* of the tree and its level is not the depth of that node.
C17_Witness ==
  /\ raced
  /\ \A t \in Threads : thr[t].status = "idle"
  /\ node \in DOMAIN tree
  /\ level # TrueDepth(node)
====
